---- MODULE Spec2Model ----
(***************************************************************************)
(* Medical LMS backend: the authentication, course and content services   *)
(* (backend/app/routers/auth.py, courses.py, content.py) over the tables   *)
(* of backend/app/models.py.                                               *)
(*                                                                         *)
(* The state is the database (one variable per table the services read or  *)
(* write), the last value read from the clock, the response of the request *)
(* handled last, the bearer tokens handed out so far, and, for requests    *)
(* that overlap in time, the position and locals of each request in        *)
(* flight.                                                                 *)
(***************************************************************************)
EXTENDS Integers, Sequences, FiniteSets, TLC

\* Bounds of the model.
MaxRows == 3            \* rows of enrollments + modules + lessons
MaxTime == 2            \* largest clock reading

Tenants == {1, 2}
Workers == {1, 2}       \* requests that may be in flight together
NoId == 0               \* an identifier that names no row of any table
ReqIds == 0 .. MaxRows  \* identifiers a caller may put in a path

VARIABLES
    tenants,             \* table tenants
    held,                \* the bearer tokens handed to clients so far
    users,               \* table users
    courses,             \* table courses
    course_enrollments,  \* table course_enrollments
    modules,             \* table modules
    content_items,       \* table content_items
    lesson_progress,     \* table lesson_progress
    now,                 \* the latest reading of datetime.utcnow()
    resp,                \* the response of the request handled last
    inflight             \* per worker: the request it is in the middle of

vars == <<tenants, held, users, courses, course_enrollments, modules,
          content_items, lesson_progress, now, resp, inflight>>

\* ------------------------------------------------------------------ tables

\* models.py Tenant.
Tenant == [id : Tenants, name : STRING, is_active : BOOLEAN]

\* models.py UserRole.
UserRole == {"ADMIN", "FACULTY", "STUDENT"}

\* Addresses and passwords a client may send.
Emails ==
    {"rahul@apollo.edu", "priya@apollo.edu", "house@apollo.edu",
     "new@apollo.edu"}
Passwords == {"password", "guess"}

\* app.auth hash_password: a one-way function of the password.
hash_password(password) == [hash_of |-> password]

\* app.auth verify_password: does the password hash to the stored value.
verify_password(password, password_hash) ==
    password_hash = hash_password(password)

\* models.py User.
UserIds == {1, 2, 3}
User ==
    [id : UserIds, tenant_id : Tenants, email : STRING,
     password_hash : [hash_of : STRING], role : UserRole,
     is_active : BOOLEAN]

\* models.py Course.
Course == [id : {1, 2}, tenant_id : Tenants, is_active : BOOLEAN]

\* models.py CourseEnrollment.
CourseEnrollment ==
    [id : 1 .. MaxRows, course_id : {1, 2}, student_id : UserIds,
     tenant_id : Tenants]

\* models.py Module.
Module ==
    [id : 1 .. MaxRows, tenant_id : Tenants, course_id : {1, 2},
     sequence_order : 1 .. MaxRows]

\* models.py ContentItem.
ContentItem ==
    [id : 1 .. MaxRows, tenant_id : Tenants, module_id : 1 .. MaxRows,
     sequence_order : 1 .. MaxRows]

\* models.py LessonProgress.
LessonProgress ==
    [id : Nat \ {0}, student_id : UserIds, content_item_id : 1 .. MaxRows,
     is_completed : BOOLEAN, completed_at : 0 .. MaxTime,
     created_at : 0 .. MaxTime]

\* Column(UUID, primary_key=True, default=uuid.uuid4): a key no row of the
\* table holds yet.  Rows are never deleted, so the count of rows is fresh.
NewId(table) == Cardinality(table) + 1

SeededRows ==
    Cardinality(course_enrollments) + Cardinality(modules)
        + Cardinality(content_items)

\* Two colleges (create_demo_user.py makes the first).
Colleges ==
    { [id |-> 1, name |-> "Apollo Medical College", is_active |-> TRUE],
      [id |-> 2, name |-> "AIIMS Delhi", is_active |-> TRUE] }

\* The student of create_demo_user.py, as user id of tenant t.
Student(id, t, email) ==
    [id |-> id, tenant_id |-> t, email |-> email,
     password_hash |-> hash_password("password"), role |-> "STUDENT",
     is_active |-> TRUE]

\* One student of each of two colleges.
TwoColleges ==
    { Student(1, 1, "rahul@apollo.edu"),
      Student(3, 2, "rahul@aiims.edu") }

\* A course of the first college, and a course of the second that has been
\* switched off.
Catalogue ==
    { [id |-> 1, tenant_id |-> 1, is_active |-> TRUE],
      [id |-> 2, tenant_id |-> 2, is_active |-> FALSE] }

NoResponse ==
    [op |-> "none", user |-> NoId, arg |-> NoId, status |-> 0,
     detail |-> "", items |-> << >>]

NoUser == [id |-> NoId, tenant_id |-> NoId]

\* A worker between requests.
Idle == [pc |-> "idle", user |-> NoUser, lesson |-> NoId, progress |-> NoId]

Init ==
    /\ tenants = Colleges
    /\ held = {}
    /\ users = TwoColleges
    /\ courses = Catalogue
    /\ course_enrollments = {}
    /\ modules = {}
    /\ content_items = {}
    /\ lesson_progress = {}
    /\ now = 0
    /\ resp = NoResponse
    /\ inflight = [w \in Workers |-> Idle]

\* ------------------------------------------------- rows written by tooling

\* The key of a new enrollment.  No handler reads it: it only tells rows
\* apart, and rows that differ in another column are apart already, so it
\* counts the rows that agree in every other column.
NewEnrollmentId(c, s, t) ==
    1 + Cardinality({ e \in course_enrollments :
                        /\ e.course_id = c.id
                        /\ e.student_id = s.id
                        /\ e.tenant_id = t })

\* CourseEnrollment(...) ; db.add ; db.commit.  course_id, student_id and
\* tenant_id are foreign keys, and nothing ties the three tenants involved
\* to one another.
InsertEnrollment(c, s, t) ==
    /\ c \in courses
    /\ s \in users
    /\ course_enrollments' = course_enrollments \cup
           {[id |-> NewEnrollmentId(c, s, t), course_id |-> c.id,
             student_id |-> s.id, tenant_id |-> t]}
    /\ UNCHANGED <<tenants, held, users, courses, modules, content_items,
                   lesson_progress, now, resp, inflight>>

\* Module(...): course_id is a foreign key to courses.
InsertModule(t, c, order) ==
    /\ c \in courses
    /\ modules' = modules \cup
           {[id |-> NewId(modules), tenant_id |-> t, course_id |-> c.id,
             sequence_order |-> order]}
    /\ UNCHANGED <<tenants, held, users, courses, course_enrollments,
                   content_items, lesson_progress, now, resp, inflight>>

\* ContentItem(...): module_id is a foreign key to modules.
InsertContentItem(t, m, order) ==
    /\ m \in modules
    /\ content_items' = content_items \cup
           {[id |-> NewId(content_items), tenant_id |-> t, module_id |-> m.id,
             sequence_order |-> order]}
    /\ UNCHANGED <<tenants, held, users, courses, course_enrollments, modules,
                   lesson_progress, now, resp, inflight>>

\* create_sprint2_demo_data.py numbers the modules of a course, and the
\* lessons of a module, 1, 2, 3, ... as it adds them.
NextModuleOrder(c) ==
    1 + Cardinality({ m \in modules : m.course_id = c.id })

NextLessonOrder(m) ==
    1 + Cardinality({ l \in content_items : l.module_id = m.id })

\* ---------------------------------------------------------------- queries

\* .order_by(key).all(), and .all() with a key that is the same for every
\* row: the rows in any order the key allows (the order of rows with equal
\* keys is the database's choice).
Orderings(S, key) ==
    { s \in [1 .. Cardinality(S) -> S] :
        \A i, j \in 1 .. Cardinality(S) :
            i < j => s[i] # s[j] /\ key[s[i]] <= key[s[j]] }

\* The keys of the rows of S: none, and sequence_order.
Unordered(S) == [r \in S |-> 0]

\* The rows keyed by their place in the order of insertion.
ByInsertion(S) == [r \in S |-> r.id]

BySequenceOrder(S) == [r \in S |-> r.sequence_order]

\* The enrollment query without its student_id filter.
EnrollmentsOfAnyStudent(u, course_id) ==
    { e \in course_enrollments :
        /\ e.course_id = course_id
        /\ e.tenant_id = u.tenant_id }

\* db.query(CourseEnrollment).filter(course_id == .., student_id ==
\* current_user.id, tenant_id == current_user.tenant_id)
Enrollments(u, course_id) ==
    { e \in course_enrollments :
        /\ e.course_id = course_id
        /\ e.student_id = u.id
        /\ e.tenant_id = u.tenant_id }

\* The progress query without its student_id filter.
ProgressRowsOfAnyStudent(u, lesson_id) ==
    { p \in lesson_progress : p.content_item_id = lesson_id }

\* db.query(LessonProgress).filter(student_id == current_user.id,
\* content_item_id == lesson.id)
ProgressRows(u, lesson_id) ==
    { p \in lesson_progress :
        p.student_id = u.id /\ p.content_item_id = lesson_id }

\* The flag with the progress row never looked at.
CompletedFlagsNever(u, lesson_id) == {FALSE}

\* progress.is_completed if progress else False, progress being .first() of
\* ProgressRows: any of the rows when there are several.
CompletedFlags(u, lesson_id) ==
    IF ProgressRows(u, lesson_id) = {}
    THEN {FALSE}
    ELSE { p.is_completed : p \in ProgressRows(u, lesson_id) }

\* -------------------------------------------------------------- responses

Ok(op, u, arg, items) ==
    [op |-> op, user |-> u.id, arg |-> arg, status |-> 200,
     detail |-> "", items |-> items]

\* raise HTTPException(status_code=.., detail=..)
Error(op, u, arg, code, detail) ==
    [op |-> op, user |-> u.id, arg |-> arg, status |-> code,
     detail |-> detail, items |-> << >>]

\* A handler that only reads: the response is all it leaves behind.
Respond(r) ==
    /\ resp' = r
    /\ UNCHANGED <<tenants, held, users, courses, course_enrollments, modules,
                   content_items, lesson_progress, now, inflight>>

\* ------------------------------------------------------- routers/courses.py

\* db.query(CourseEnrollment).filter(student_id, tenant_id).all()
MyEnrollments(u) ==
    { e \in course_enrollments :
        e.student_id = u.id /\ e.tenant_id = u.tenant_id }

\* The course query without its is_active filter.
CoursesOfAnyState(course_id) ==
    { c \in courses : c.id = course_id }

\* db.query(Course).filter(Course.id == .., Course.is_active == True)
ActiveCourses(course_id) ==
    { c \in courses : c.id = course_id /\ c.is_active }

CourseBasic(course_id) == [id |-> course_id]

\* The loop of get_my_courses over the enrollments in the order given.
MyCourseItems(order) ==
    LET f[i \in 0 .. Len(order)] ==
            IF i = 0 THEN << >>
            ELSE IF ActiveCourses(order[i].course_id) = {}
                 THEN f[i - 1]
                 ELSE Append(f[i - 1], CourseBasic(order[i].course_id))
    IN  f[Len(order)]

\* GET /courses/my-courses: the responses it may give.
get_my_courses(u) ==
    { Ok("get_my_courses", u, NoId, MyCourseItems(order)) :
        order \in Orderings(MyEnrollments(u),
                            Unordered(MyEnrollments(u))) }

GetMyCourses(u) == \E r \in get_my_courses(u) : Respond(r)

\* get_course_detail with its two checks in the other order.
get_course_detail_lookup_first(u, course_id) ==
    IF ActiveCourses(course_id) = {}
    THEN { Error("get_course_detail", u, course_id, 404, "Course not found") }
    ELSE IF Enrollments(u, course_id) = {}
    THEN { Error("get_course_detail", u, course_id, 403,
                 "You are not enrolled in this course") }
    ELSE { Ok("get_course_detail", u, course_id, <<CourseBasic(course_id)>>) }

\* GET /courses/{course_id}
get_course_detail(u, course_id) ==
    IF Enrollments(u, course_id) = {}
    THEN { Error("get_course_detail", u, course_id, 403,
                 "You are not enrolled in this course") }
    ELSE IF ActiveCourses(course_id) = {}
    THEN { Error("get_course_detail", u, course_id, 404, "Course not found") }
    ELSE { Ok("get_course_detail", u, course_id, <<CourseBasic(course_id)>>) }

GetCourseDetail(u, course_id) ==
    \E r \in get_course_detail(u, course_id) : Respond(r)

\* db.query(Module).filter(course_id == .., tenant_id == current_user's)
CourseModules(u, course_id) ==
    { m \in modules : m.course_id = course_id /\ m.tenant_id = u.tenant_id }

ModuleResponse(m) == [id |-> m.id, sequence_order |-> m.sequence_order]

\* GET /courses/{course_id}/modules
get_course_modules(u, course_id) ==
    IF Enrollments(u, course_id) = {}
    THEN { Error("get_course_modules", u, course_id, 403,
                 "You are not enrolled in this course") }
    ELSE { Ok("get_course_modules", u, course_id,
              [i \in DOMAIN order |-> ModuleResponse(order[i])]) :
             order \in Orderings(CourseModules(u, course_id),
                                 BySequenceOrder(CourseModules(u, course_id))) }

GetCourseModules(u, course_id) ==
    \E r \in get_course_modules(u, course_id) : Respond(r)

\* ------------------------------------------------------- routers/content.py

\* The module query without its tenant filter.
ModulesOfAnyTenant(u, module_id) ==
    { m \in modules : m.id = module_id }

\* db.query(Module).filter(Module.id == .., Module.tenant_id == tenant)
ModulesInTenant(u, module_id) ==
    { m \in modules : m.id = module_id /\ m.tenant_id = u.tenant_id }

\* db.query(ContentItem).filter(module_id == .., tenant_id == tenant)
ModuleLessons(u, module_id) ==
    { l \in content_items :
        l.module_id = module_id /\ l.tenant_id = u.tenant_id }

\* db.query(ContentItem).filter(ContentItem.id == .., tenant_id == tenant)
LessonsInTenant(u, lesson_id) ==
    { l \in content_items : l.id = lesson_id /\ l.tenant_id = u.tenant_id }

\* db.query(Module).filter(Module.id == lesson.module_id).first(): the key
\* is unique and module_id is a foreign key, so this is the one such row.
ModuleOf(lesson) == CHOOSE m \in modules : m.id = lesson.module_id

LessonBasic(l, done) ==
    [id |-> l.id, sequence_order |-> l.sequence_order, is_completed |-> done]

\* The loop of get_module_lessons over the lessons in the order given: every
\* list it may build, one flag of CompletedFlags per lesson.
LessonItems(u, order) ==
    { [i \in DOMAIN order |-> LessonBasic(order[i], done[i])] :
        done \in { d \in [DOMAIN order -> BOOLEAN] :
                     \A i \in DOMAIN order :
                         d[i] \in CompletedFlags(u, order[i].id) } }

\* GET /content/{module_id}/lessons
get_module_lessons(u, module_id) ==
    IF ModulesInTenant(u, module_id) = {}
    THEN { Error("get_module_lessons", u, module_id, 404,
                 "Module not found") }
    ELSE LET module == CHOOSE m \in ModulesInTenant(u, module_id) : TRUE IN
         IF Enrollments(u, module.course_id) = {}
         THEN { Error("get_module_lessons", u, module_id, 403,
                      "You are not enrolled in this course") }
         ELSE { Ok("get_module_lessons", u, module_id, items) :
                  items \in UNION { LessonItems(u, order) :
                      order \in Orderings(ModuleLessons(u, module_id),
                          BySequenceOrder(ModuleLessons(u, module_id))) } }

GetModuleLessons(u, module_id) ==
    \E r \in get_module_lessons(u, module_id) : Respond(r)

\* The checks of get_lesson_content with a refusal of users who hold no
\* enrollment at all put first.
LessonGateEnrollmentFirst(u, lesson_id) ==
    IF MyEnrollments(u) = {}
    THEN 403
    ELSE IF LessonsInTenant(u, lesson_id) = {}
    THEN 404
    ELSE LET lesson == CHOOSE l \in LessonsInTenant(u, lesson_id) : TRUE IN
         IF Enrollments(u, ModuleOf(lesson).course_id) = {} THEN 403 ELSE 200

\* The checks of get_lesson_content before it reads the progress: 404, 403,
\* or 200 when it goes on.
LessonGate(u, lesson_id) ==
    IF LessonsInTenant(u, lesson_id) = {}
    THEN 404
    ELSE LET lesson == CHOOSE l \in LessonsInTenant(u, lesson_id) : TRUE IN
         IF Enrollments(u, ModuleOf(lesson).course_id) = {} THEN 403 ELSE 200

GateDetail(code) ==
    IF code = 404 THEN "Lesson not found"
    ELSE "You are not enrolled in this course"

\* GET /content/lesson/{lesson_id}
get_lesson_content(u, lesson_id) ==
    IF LessonGate(u, lesson_id) # 200
    THEN { Error("get_lesson_content", u, lesson_id,
                 LessonGate(u, lesson_id),
                 GateDetail(LessonGate(u, lesson_id))) }
    ELSE LET lesson == CHOOSE l \in LessonsInTenant(u, lesson_id) : TRUE IN
         { Ok("get_lesson_content", u, lesson_id,
              <<LessonBasic(lesson, done)>>) :
             done \in CompletedFlags(u, lesson_id) }

\* get_lesson_content storing a row for the lesson it hands out, when the
\* student has none.
GetLessonContentRecordingView(u, lesson_id) ==
    \E r \in get_lesson_content(u, lesson_id) :
        /\ resp' = r
        /\ lesson_progress' =
               IF r.status = 200 /\ ProgressRows(u, lesson_id) = {}
               THEN lesson_progress \cup
                      {[id |-> NewId(lesson_progress), student_id |-> u.id,
                        content_item_id |-> lesson_id, is_completed |-> FALSE,
                        completed_at |-> now, created_at |-> now]}
               ELSE lesson_progress
        /\ UNCHANGED <<tenants, held, users, courses, course_enrollments,
                       modules, content_items, now, inflight>>

GetLessonContent(u, lesson_id) ==
    \E r \in get_lesson_content(u, lesson_id) : Respond(r)

\* The checks of mark_lesson_complete before it reads the progress.
CompleteGate(u, lesson_id) ==
    IF LessonsInTenant(u, lesson_id) = {}
    THEN 404
    ELSE LET lesson == CHOOSE l \in LessonsInTenant(u, lesson_id) : TRUE IN
         IF Enrollments(u, ModuleOf(lesson).course_id) = {} THEN 403 ELSE 200

\* progress = db.query(LessonProgress)...first(): the key of the row found,
\* any of them when there are several, NoId for None.
FoundProgress(u, lesson_id) ==
    IF ProgressRows(u, lesson_id) = {}
    THEN {NoId}
    ELSE { p.id : p \in ProgressRows(u, lesson_id) }

\* The write against a table that holds one row per (student, lesson): the
\* insert of a second row for a pair is rejected.
UpsertUnique(u, lesson_id, found, t) ==
    IF found # NoId
    THEN { IF p.id = found
           THEN [p EXCEPT !.is_completed = TRUE, !.completed_at = t]
           ELSE p : p \in lesson_progress }
    ELSE IF \E p \in lesson_progress :
                p.student_id = u.id /\ p.content_item_id = lesson_id
    THEN lesson_progress
    ELSE lesson_progress \cup
           {[id |-> NewId(lesson_progress), student_id |-> u.id,
             content_item_id |-> lesson_id, is_completed |-> TRUE,
             completed_at |-> t, created_at |-> t]}

\* The write with the update flipping the flag instead of setting it.
UpsertToggle(u, lesson_id, found, t) ==
    IF found # NoId
    THEN { IF p.id = found
           THEN [p EXCEPT !.is_completed = ~p.is_completed,
                          !.completed_at = t]
           ELSE p : p \in lesson_progress }
    ELSE lesson_progress \cup
           {[id |-> NewId(lesson_progress), student_id |-> u.id,
             content_item_id |-> lesson_id, is_completed |-> TRUE,
             completed_at |-> t, created_at |-> t]}

\* The write with the update leaving the time of the first completion.
UpsertKeepsFirstTime(u, lesson_id, found, t) ==
    IF found # NoId
    THEN { IF p.id = found
           THEN [p EXCEPT !.is_completed = TRUE]
           ELSE p : p \in lesson_progress }
    ELSE lesson_progress \cup
           {[id |-> NewId(lesson_progress), student_id |-> u.id,
             content_item_id |-> lesson_id, is_completed |-> TRUE,
             completed_at |-> t, created_at |-> t]}

\* The write with the insert taken whatever the query found.
UpsertAppend(u, lesson_id, found, t) ==
    lesson_progress \cup
        {[id |-> NewId(lesson_progress), student_id |-> u.id,
          content_item_id |-> lesson_id, is_completed |-> TRUE,
          completed_at |-> t, created_at |-> t]}

\* if progress: update it in place; else: db.add(a new row); db.commit().
\* The table after the commit, found being the key the query returned, t the
\* reading of the clock.
Upsert(u, lesson_id, found, t) ==
    IF found # NoId
    THEN { IF p.id = found
           THEN [p EXCEPT !.is_completed = TRUE, !.completed_at = t]
           ELSE p : p \in lesson_progress }
    ELSE lesson_progress \cup
           {[id |-> NewId(lesson_progress), student_id |-> u.id,
             content_item_id |-> lesson_id, is_completed |-> TRUE,
             completed_at |-> t, created_at |-> t]}

CompleteResponse(u, lesson_id, t) ==
    Ok("mark_lesson_complete", u, lesson_id,
       <<[id |-> lesson_id, completed_at |-> t]>>)

\* completed_time = datetime.utcnow(): a reading no earlier than the latest.
ClockReadings == now .. MaxTime

\* mark_lesson_complete with the progress row written as soon as the lesson
\* is found, before the enrollment is checked.
mark_lesson_complete_write_first(u, lesson_id) ==
    IF LessonsInTenant(u, lesson_id) = {}
    THEN { [resp |-> Error("mark_lesson_complete", u, lesson_id, 404,
                           GateDetail(404)),
            progress |-> lesson_progress,
            clock |-> now] }
    ELSE { [resp |-> IF CompleteGate(u, lesson_id) = 200
                     THEN CompleteResponse(u, lesson_id, t)
                     ELSE Error("mark_lesson_complete", u, lesson_id, 403,
                                GateDetail(403)),
            progress |-> Upsert(u, lesson_id, found, t),
            clock |-> t] :
             found \in FoundProgress(u, lesson_id), t \in ClockReadings }

\* POST /content/lesson/{lesson_id}/complete, run from start to end with no
\* other request in between: the outcomes it may have, each the response,
\* the table lesson_progress it leaves and the clock reading it took.
mark_lesson_complete(u, lesson_id) ==
    IF CompleteGate(u, lesson_id) # 200
    THEN { [resp |-> Error("mark_lesson_complete", u, lesson_id,
                           CompleteGate(u, lesson_id),
                           GateDetail(CompleteGate(u, lesson_id))),
            progress |-> lesson_progress,
            clock |-> now] }
    ELSE { [resp |-> CompleteResponse(u, lesson_id, t),
            progress |-> Upsert(u, lesson_id, found, t),
            clock |-> t] :
             found \in FoundProgress(u, lesson_id), t \in ClockReadings }

MarkLessonComplete(u, lesson_id) ==
    \E o \in mark_lesson_complete(u, lesson_id) :
        /\ lesson_progress' = o.progress
        /\ now' = o.clock
        /\ resp' = o.resp
        /\ UNCHANGED <<tenants, held, users, courses, course_enrollments,
                       modules, content_items, inflight>>

\* POST /content/lesson/{lesson_id}/complete up to and including its query
\* for the progress row, in worker w.  Other requests may run before it
\* goes on.
BeginComplete(w, u, lesson_id) ==
    /\ inflight[w].pc = "idle"
    /\ IF CompleteGate(u, lesson_id) # 200
       THEN Respond(Error("mark_lesson_complete", u, lesson_id,
                          CompleteGate(u, lesson_id),
                          GateDetail(CompleteGate(u, lesson_id))))
       ELSE \E found \in FoundProgress(u, lesson_id) :
                /\ inflight' = [inflight EXCEPT ![w] =
                       [pc |-> "queried", user |-> u, lesson |-> lesson_id,
                        progress |-> found]]
                /\ UNCHANGED <<tenants, held, users, courses,
                               course_enrollments, modules,
                               content_items,
                               lesson_progress, now, resp>>

\* The rest of the request of worker w: the clock, the update or the insert,
\* the commit and the response.
CommitComplete(w) ==
    /\ inflight[w].pc = "queried"
    /\ \E t \in ClockReadings :
           /\ lesson_progress' =
                  Upsert(inflight[w].user, inflight[w].lesson,
                         inflight[w].progress, t)
           /\ now' = t
           /\ resp' = CompleteResponse(inflight[w].user, inflight[w].lesson, t)
    /\ inflight' = [inflight EXCEPT ![w] = Idle]
    /\ UNCHANGED <<tenants, held, users, courses, course_enrollments, modules,
                   content_items>>

\* ---------------------------------------------------------- routers/auth.py

\* Roles a client may send.
RoleInputs == {"STUDENT", "student", "FACULTY", "NURSE"}

\* The role compared as it was sent.
as_sent(role) == role

\* signup_data.role.upper(), on the roles a client may send.
upper(role) == IF role = "student" THEN "STUDENT" ELSE role

\* valid_roles = ["ADMIN", "FACULTY", "STUDENT"]
valid_roles == {"ADMIN", "FACULTY", "STUDENT"}

\* class SignupRequest(BaseModel): its fields; full_name and phone are
\* stored and returned as they come and are left out of the requests.
SignupRequestFields == {"email", "password", "full_name", "phone", "role"}
SignupRequest == [email : Emails, password : {"password"}, role : RoleInputs]

\* class LoginRequest(BaseModel)
LoginRequest == [email : Emails, password : Passwords]

\* The signup query for the email finding nobody.
existing_user_unseen(email) == {}

\* db.query(User).filter(User.email == signup_data.email): the users of any
\* tenant with the email.
existing_user(email) == { u \in users : u.email = email }

\* db.query(User).filter(User.email == ..) of login and reset_password.
UsersByEmail(email) == { u \in users : u.email = email }

\* Tenant(id=uuid.uuid4(), name="Default Medical College", ...)
DefaultTenant ==
    [id |-> NewId(tenants), name |-> "Default Medical College",
     is_active |-> TRUE]

\* default_tenant = db.query(Tenant).first(), created when there is none:
\* any of the tenants when there are several.
default_tenant == IF tenants = {} THEN {DefaultTenant} ELSE tenants

\* new_user = User(id=uuid.uuid4(), tenant_id=.., email=.., ..,
\* role=UserRole[signup_data.role.upper()], is_active=True)
new_user(d, tenant_id) ==
    [id |-> NewId(users), tenant_id |-> tenant_id, email |-> d.email,
     password_hash |-> hash_password(d.password), role |-> upper(d.role),
     is_active |-> TRUE]

\* UserResponse(id=.., email=.., full_name=.., role=.., tenant_id=..)
UserResponse(u) ==
    [id |-> u.id, email |-> u.email, role |-> u.role,
     tenant_id |-> u.tenant_id]

\* status_code=status.HTTP_201_CREATED
Created(op, arg, items) ==
    [op |-> op, user |-> NoId, arg |-> arg, status |-> 201,
     detail |-> "", items |-> items]

\* An exception that is not an HTTPException leaves the handler: the
\* framework answers 500.
ServerError(op, arg) ==
    [op |-> op, user |-> NoId, arg |-> arg, status |-> 500,
     detail |-> "Internal Server Error", items |-> << >>]

\* An outcome of signup that has written nothing.
Unwritten(r) == [resp |-> r, users |-> users, tenants |-> tenants]

\* POST /auth/signup: the outcomes it may have, each the response and the
\* tables users and tenants it leaves.  signup_data.tenant_id is read of a
\* SignupRequest, which has no such field: the read raises AttributeError.
signup(d) ==
    IF existing_user(d.email) # {}
    THEN { Unwritten(Error("signup", NoUser, d, 400,
                           "Email already registered")) }
    ELSE IF upper(d.role) \notin valid_roles
    THEN { Unwritten(Error("signup", NoUser, d, 400,
               "Invalid role. Must be one of: ADMIN, FACULTY, STUDENT")) }
    ELSE IF "tenant_id" \notin SignupRequestFields
    THEN { Unwritten(ServerError("signup", d)) }
    ELSE { [resp |-> Created("signup", d,
                             <<UserResponse(new_user(d, t.id))>>),
            users |-> users \cup {new_user(d, t.id)},
            tenants |-> tenants \cup {t}] : t \in default_tenant }

Signup(d) ==
    \E o \in signup(d) :
        /\ users' = o.users
        /\ tenants' = o.tenants
        /\ resp' = o.resp
        /\ UNCHANGED <<held, courses, course_enrollments, modules,
                       content_items, lesson_progress, now, inflight>>

\* How long a token is accepted after it was made.
TokenLife == 1

\* app.auth create_token(str(user.id)): a token bound to the user id, good
\* until TokenLife after the clock reading t at which it is made.
create_token(user_id, t) == [sub |-> user_id, exp |-> t + TokenLife]

\* TokenResponse(access_token=token)
TokenResponse(op, u, arg, token) ==
    Ok(op, u, arg, <<[access_token |-> token]>>)

\* The answer of login to an email that no user holds, telling so.
NoSuchUserTold(d) == Error("login", NoUser, d, 404, "User not found")

\* if not user: raise HTTPException(401, "Email or password is incorrect")
NoSuchUser(d) ==
    Error("login", NoUser, d, 401, "Email or password is incorrect")

\* The checks of login on the user found, without the one of is_active.
LoginGateOfAnyState(user, password) ==
    IF ~verify_password(password, user.password_hash) THEN 401 ELSE 200

\* The checks of login on the user found, is_active looked at first.
LoginGateActiveFirst(user, password) ==
    IF ~user.is_active
    THEN 403
    ELSE IF ~verify_password(password, user.password_hash) THEN 401 ELSE 200

\* The checks of login on the user found: 401, 403, or 200 when it goes on
\* to make the token.
LoginGate(user, password) ==
    IF ~verify_password(password, user.password_hash)
    THEN 401
    ELSE IF ~user.is_active THEN 403 ELSE 200

LoginDetail(code) ==
    IF code = 401 THEN "Email or password is incorrect"
    ELSE "Your account is disabled"

\* POST /auth/login: the outcomes it may have, each the response and the
\* latest clock reading; user is .first() of the users with the email, any
\* of them when there are several.
login(d) ==
    IF UsersByEmail(d.email) = {}
    THEN { [resp |-> NoSuchUser(d), clock |-> now] }
    ELSE UNION {
           IF LoginGate(user, d.password) # 200
           THEN { [resp |-> Error("login", NoUser, d,
                                  LoginGate(user, d.password),
                                  LoginDetail(LoginGate(user, d.password))),
                   clock |-> now] }
           ELSE { [resp |-> TokenResponse("login", NoUser, d,
                                          create_token(user.id, t)),
                   clock |-> t] : t \in ClockReadings }
           : user \in UsersByEmail(d.email) }

\* The tokens a response hands out.
TokensOf(r) ==
    IF r.status = 200 /\ r.op \in {"login", "refresh_token"}
    THEN { r.items[i].access_token : i \in DOMAIN r.items }
    ELSE {}

Login(d) ==
    \E o \in login(d) :
        /\ resp' = o.resp
        /\ now' = o.clock
        /\ held' = held \cup TokensOf(o.resp)
        /\ UNCHANGED <<tenants, users, courses, course_enrollments, modules,
                       content_items, lesson_progress, inflight>>

\* app.auth get_current_user: the user a bearer token resolves to at clock
\* reading t, NoUser when the request is refused with 401.  The token must
\* not have expired and must name a stored user; whether the user must also
\* be active is left open.
get_current_user(token, t) ==
    IF token.exp < t \/ { u \in users : u.id = token.sub } = {}
    THEN {NoUser}
    ELSE UNION { IF u.is_active THEN {u} ELSE {u, NoUser} :
                   u \in { x \in users : x.id = token.sub } }

\* The answer to a request whose token get_current_user refuses.
Unauthorized(op) ==
    [op |-> op, user |-> NoId, arg |-> NoId, status |-> 401,
     detail |-> "Could not validate credentials", items |-> << >>]

\* refresh_token making the token for the user's tenant id.
refresh_token_of_tenant(current_user, t) ==
    TokenResponse("refresh_token", current_user, NoId,
                  create_token(current_user.tenant_id, t))

\* POST /auth/refresh: new_token = create_token(str(current_user.id))
refresh_token(current_user, t) ==
    TokenResponse("refresh_token", current_user, NoId,
                  create_token(current_user.id, t))

\* A request to /auth/refresh carrying the token: the dependency at clock
\* reading t1, then the handler at t2.
RefreshToken(token) ==
    \E t1 \in ClockReadings : \E u \in get_current_user(token, t1) :
        IF u = NoUser
        THEN /\ resp' = Unauthorized("refresh_token")
             /\ now' = t1
             /\ UNCHANGED <<tenants, held, users, courses,
                            course_enrollments, modules, content_items,
                            lesson_progress, inflight>>
        ELSE \E t2 \in t1 .. MaxTime :
                 /\ resp' = refresh_token(u, t2)
                 /\ now' = t2
                 /\ held' = held \cup TokensOf(refresh_token(u, t2))
                 /\ UNCHANGED <<tenants, users, courses, course_enrollments,
                                modules, content_items, lesson_progress,
                                inflight>>

ResetMessage ==
    "If this email exists, you will receive password reset instructions"

\* reset_password answering 404 when no user holds the email.
reset_password_telling(email) ==
    IF UsersByEmail(email) = {}
    THEN { Error("reset_password", NoUser, email, 404, "User not found") }
    ELSE { [op |-> "reset_password", user |-> NoId, arg |-> email,
            status |-> 200, detail |-> "",
            items |-> <<[message |-> ResetMessage]>>] }

\* POST /auth/reset-password: the user is looked up and the answer is the
\* same whether or not there is one.
reset_password(email) ==
    { [op |-> "reset_password", user |-> NoId, arg |-> email,
       status |-> 200, detail |-> "",
       items |-> <<[message |-> ResetMessage]>>] :
        user \in IF UsersByEmail(email) = {} THEN {NoUser}
                 ELSE UsersByEmail(email) }

ResetPassword(email) == \E r \in reset_password(email) : Respond(r)

\* GET /auth/me
get_me(current_user) ==
    Ok("get_me", current_user, NoId, <<UserResponse(current_user)>>)

\* A request to /auth/me carrying the token.
GetMe(token) ==
    \E t \in ClockReadings : \E u \in get_current_user(token, t) :
        /\ resp' = IF u = NoUser THEN Unauthorized("get_me") ELSE get_me(u)
        /\ now' = t
        /\ UNCHANGED <<tenants, held, users, courses, course_enrollments,
                       modules, content_items, lesson_progress, inflight>>

\* ---------------------------------------------------------- specification

\* The tables hold rows of their models, keys are unique and foreign keys
\* name rows.
TypeOK ==
    /\ \A t \in tenants : t \in Tenant
    /\ \A u \in users : u \in User
    /\ \A u \in users : \E t \in tenants : t.id = u.tenant_id
    /\ courses \subseteq Course
    /\ course_enrollments \subseteq CourseEnrollment
    /\ modules \subseteq Module
    /\ content_items \subseteq ContentItem
    /\ \A p \in lesson_progress : p \in LessonProgress
    /\ now \in 0 .. MaxTime
    /\ \A m1, m2 \in modules : m1.id = m2.id => m1 = m2
    /\ \A l1, l2 \in content_items : l1.id = l2.id => l1 = l2
    /\ \A p1, p2 \in lesson_progress : p1.id = p2.id => p1 = p2
    /\ \A e \in course_enrollments :
           /\ \E c \in courses : c.id = e.course_id
           /\ \E u \in users : u.id = e.student_id
    /\ \A m \in modules : \E c \in courses : c.id = m.course_id
    /\ \A l \in content_items : \E m \in modules : m.id = l.module_id
    /\ \A p \in lesson_progress :
           /\ \E u \in users : u.id = p.student_id
           /\ \E l \in content_items : l.id = p.content_item_id

\* Rows arrive and requests are served one at a time, each request from its
\* start to its end.
Next ==
    \/ \E c \in courses, s \in users, t \in Tenants :
           SeededRows < MaxRows /\ InsertEnrollment(c, s, t)
    \/ \E t \in Tenants, c \in courses :
           SeededRows < MaxRows /\ InsertModule(t, c, NextModuleOrder(c))
    \/ \E t \in Tenants, m \in modules :
           SeededRows < MaxRows /\ InsertContentItem(t, m, NextLessonOrder(m))
    \/ \E u \in users : GetMyCourses(u)
    \/ \E u \in users, id \in ReqIds : GetCourseDetail(u, id)
    \/ \E u \in users, id \in ReqIds : GetCourseModules(u, id)
    \/ \E u \in users, id \in ReqIds : GetModuleLessons(u, id)
    \/ \E u \in users, id \in ReqIds : GetLessonContent(u, id)
    \/ \E u \in users, id \in ReqIds : MarkLessonComplete(u, id)

Spec == Init /\ [][Next]_vars

\* Two students of one college, the first enrolled in its course, which has
\* one module with one lesson (create_demo_user.py and
\* create_sprint2_demo_data.py, cut down).
InitDemo ==
    /\ tenants = { c \in Colleges : c.id = 1 }
    /\ held = {}
    /\ users = { Student(1, 1, "rahul@apollo.edu"),
                 Student(2, 1, "priya@apollo.edu") }
    /\ courses = { [id |-> 1, tenant_id |-> 1, is_active |-> TRUE] }
    /\ course_enrollments =
           { [id |-> 1, course_id |-> 1, student_id |-> 1, tenant_id |-> 1] }
    /\ modules =
           { [id |-> 1, tenant_id |-> 1, course_id |-> 1,
              sequence_order |-> 1] }
    /\ content_items =
           { [id |-> 1, tenant_id |-> 1, module_id |-> 1,
              sequence_order |-> 1] }
    /\ lesson_progress = {}
    /\ now = 0
    /\ resp = NoResponse
    /\ inflight = [w \in Workers |-> Idle]

\* Completion requests served by several workers at once: a request may
\* stop between its query and its commit while another one runs.
NextConcurrent ==
    \/ \E w \in Workers, u \in users, id \in {NoId, 1} :
           BeginComplete(w, u, id)
    \/ \E w \in Workers : CommitComplete(w)

SpecConcurrent == InitDemo /\ [][NextConcurrent]_vars

\* A user of tenant t with the role, active or switched off.
Account(id, t, email, role, active) ==
    [id |-> id, tenant_id |-> t, email |-> email,
     password_hash |-> hash_password("password"), role |-> role,
     is_active |-> active]

\* The demo data cut down to one course, module and lesson: a student who
\* is enrolled, and a student of the same college and a teacher of the
\* other college whose accounts have been switched off.
InitAccounts ==
    /\ tenants = Colleges
    /\ held = {}
    /\ users = { Account(1, 1, "priya@apollo.edu", "STUDENT", FALSE),
                 Account(2, 1, "rahul@apollo.edu", "STUDENT", TRUE),
                 Account(3, 2, "house@apollo.edu", "FACULTY", FALSE) }
    /\ courses = { c \in Catalogue : c.id = 1 }
    /\ course_enrollments =
           { [id |-> 1, course_id |-> 1, student_id |-> 2, tenant_id |-> 1] }
    /\ modules =
           { [id |-> 1, tenant_id |-> 1, course_id |-> 1,
              sequence_order |-> 1] }
    /\ content_items =
           { [id |-> 1, tenant_id |-> 1, module_id |-> 1,
              sequence_order |-> 1] }
    /\ lesson_progress = {}
    /\ now = 0
    /\ resp = NoResponse
    /\ inflight = [w \in Workers |-> Idle]

\* The database before anything was stored.
InitEmpty ==
    /\ tenants = {}
    /\ held = {}
    /\ users = {}
    /\ courses = {}
    /\ course_enrollments = {}
    /\ modules = {}
    /\ content_items = {}
    /\ lesson_progress = {}
    /\ now = 0
    /\ resp = NoResponse
    /\ inflight = [w \in Workers |-> Idle]

InitAuth == InitAccounts \/ InitEmpty

\* Every handler of the three routers, one request at a time, over rows
\* that the handlers alone change.
NextAuth ==
    \/ \E d \in SignupRequest : Signup(d)
    \/ \E d \in LoginRequest : Login(d)
    \/ \E token \in held : RefreshToken(token)
    \/ \E token \in held : GetMe(token)
    \/ \E email \in Emails : ResetPassword(email)
    \/ \E u \in users : GetMyCourses(u)
    \/ \E u \in users, id \in {NoId, 1} : GetCourseDetail(u, id)
    \/ \E u \in users, id \in {NoId, 1} : GetCourseModules(u, id)
    \/ \E u \in users, id \in {NoId, 1} : GetModuleLessons(u, id)
    \/ \E u \in users, id \in {NoId, 1} : GetLessonContent(u, id)
    \/ \E u \in users, id \in {NoId, 1} : MarkLessonComplete(u, id)

SpecAuth == InitAuth /\ [][NextAuth]_vars

\* Two students of one college, both enrolled in its course, which has one
\* module with two lessons.
InitClass ==
    /\ tenants = { c \in Colleges : c.id = 1 }
    /\ held = {}
    /\ users = { Student(1, 1, "rahul@apollo.edu"),
                 Student(2, 1, "priya@apollo.edu") }
    /\ courses = { c \in Catalogue : c.id = 1 }
    /\ course_enrollments =
           { [id |-> 1, course_id |-> 1, student_id |-> 1, tenant_id |-> 1],
             [id |-> 1, course_id |-> 1, student_id |-> 2, tenant_id |-> 1] }
    /\ modules =
           { [id |-> 1, tenant_id |-> 1, course_id |-> 1,
              sequence_order |-> 1] }
    /\ content_items =
           { [id |-> 1, tenant_id |-> 1, module_id |-> 1,
              sequence_order |-> 1],
             [id |-> 2, tenant_id |-> 1, module_id |-> 1,
              sequence_order |-> 2] }
    /\ lesson_progress = {}
    /\ now = 0
    /\ resp = NoResponse
    /\ inflight = [w \in Workers |-> Idle]

\* The students complete the lessons, one request at a time.
NextClass == \E u \in users, id \in {1, 2} : MarkLessonComplete(u, id)

SpecClass == InitClass /\ [][NextClass]_vars

\* The modules and lessons stored.
ListedRows == Cardinality(modules) + Cardinality(content_items)

\* A student enrolled in the course of the first college, which has no
\* module yet.
InitListing ==
    /\ tenants = Colleges
    /\ held = {}
    /\ users = { Student(1, 1, "rahul@apollo.edu") }
    /\ courses = { c \in Catalogue : c.id = 1 }
    /\ course_enrollments =
           { [id |-> 1, course_id |-> 1, student_id |-> 1, tenant_id |-> 1] }
    /\ modules = {}
    /\ content_items = {}
    /\ lesson_progress = {}
    /\ now = 0
    /\ resp = NoResponse
    /\ inflight = [w \in Workers |-> Idle]

\* Modules and lessons arrive with any sequence_order, in any order, under
\* either tenant, and are listed.
NextListing ==
    \/ \E t \in Tenants, c \in courses, order \in 1 .. MaxRows :
           ListedRows < MaxRows /\ InsertModule(t, c, order)
    \/ \E t \in Tenants, m \in modules, order \in 1 .. MaxRows :
           ListedRows < MaxRows /\ InsertContentItem(t, m, order)
    \/ \E u \in users, id \in ReqIds : GetCourseModules(u, id)
    \/ \E u \in users, id \in ReqIds : GetModuleLessons(u, id)

SpecListing == InitListing /\ [][NextListing]_vars

\* ------------------------------------------------------------------ claims

\* The rows a response names, by table.
ReturnedCourses(r) ==
    { c \in courses : \E i \in DOMAIN r.items : r.items[i].id = c.id }

ReturnedModules(r) ==
    { m \in modules : \E i \in DOMAIN r.items : r.items[i].id = m.id }

ReturnedLessons(r) ==
    { l \in content_items : \E i \in DOMAIN r.items : r.items[i].id = l.id }

\* C1: tenant isolation.  Whatever rows are stored and whatever identifier
\* is supplied, no course or content operation invoked by a user returns a
\* course, module or lesson of another tenant than the user's, or records
\* progress on a lesson of another tenant.
TenantIsolation ==
    \A u \in users :
        /\ resp.user = u.id /\ resp.status = 200 =>
               /\ resp.op \in {"get_my_courses", "get_course_detail"} =>
                      \A c \in ReturnedCourses(resp) :
                          c.tenant_id = u.tenant_id
               /\ resp.op = "get_course_modules" =>
                      \A m \in ReturnedModules(resp) :
                          m.tenant_id = u.tenant_id
               /\ resp.op \in {"get_module_lessons", "get_lesson_content",
                               "mark_lesson_complete"} =>
                      \A l \in ReturnedLessons(resp) :
                          l.tenant_id = u.tenant_id
        /\ \A p \in lesson_progress, l \in content_items :
               p.student_id = u.id /\ p.content_item_id = l.id =>
                   l.tenant_id = u.tenant_id

\* A CourseEnrollment row links the user to the course within the user's
\* tenant.
IsEnrolled(u, course_id) ==
    \E e \in course_enrollments :
        /\ e.course_id = course_id
        /\ e.student_id = u.id
        /\ e.tenant_id = u.tenant_id

\* The courses owning the module, and the lesson, of the given key.
OwningCoursesOfModule(module_id) ==
    { m.course_id : m \in { x \in modules : x.id = module_id } }

OwningCoursesOfLesson(lesson_id) ==
    UNION { OwningCoursesOfModule(l.module_id) :
              l \in { x \in content_items : x.id = lesson_id } }

ModuleInTenant(u, module_id) ==
    \E m \in modules : m.id = module_id /\ m.tenant_id = u.tenant_id

LessonInTenant(u, lesson_id) ==
    \E l \in content_items : l.id = lesson_id /\ l.tenant_id = u.tenant_id

\* C2: enrollment gate.  list_lessons, get_lesson and complete_lesson
\* succeed only if an enrollment row links the requesting user to the owning
\* course of the module or lesson within the user's tenant; when the target
\* exists in the user's tenant and there is no such row, they fail with 403,
\* return no lesson data and, for complete_lesson, write nothing.
EnrollmentGate ==
    \A u \in users, id \in ReqIds :
        /\ \A r \in get_module_lessons(u, id) :
               /\ r.status = 200 =>
                      \E c \in OwningCoursesOfModule(id) : IsEnrolled(u, c)
               /\ ( /\ ModuleInTenant(u, id)
                    /\ \A c \in OwningCoursesOfModule(id) : ~IsEnrolled(u, c) )
                      => r.status = 403 /\ r.items = << >>
        /\ \A r \in get_lesson_content(u, id) :
               /\ r.status = 200 =>
                      \E c \in OwningCoursesOfLesson(id) : IsEnrolled(u, c)
               /\ ( /\ LessonInTenant(u, id)
                    /\ \A c \in OwningCoursesOfLesson(id) : ~IsEnrolled(u, c) )
                      => r.status = 403 /\ r.items = << >>
        /\ \A o \in mark_lesson_complete(u, id) :
               /\ o.resp.status = 200 =>
                      \E c \in OwningCoursesOfLesson(id) : IsEnrolled(u, c)
               /\ ( /\ LessonInTenant(u, id)
                    /\ \A c \in OwningCoursesOfLesson(id) : ~IsEnrolled(u, c) )
                      => /\ o.resp.status = 403
                         /\ o.resp.items = << >>
                         /\ o.progress = lesson_progress

\* A lesson of the user's tenant was asked for and refused with 403 while
\* another student holds an enrollment in its course.
EnrollmentGateWitness ==
    /\ resp.op = "get_lesson_content"
    /\ resp.status = 403
    /\ \E u \in users :
           /\ u.id = resp.user
           /\ LessonInTenant(u, resp.arg)
           /\ \A c \in OwningCoursesOfLesson(resp.arg) :
                  /\ ~IsEnrolled(u, c)
                  /\ \E e \in course_enrollments : e.course_id = c

\* The progress rows of a (student, lesson) pair.
PairRows(table, student_id, lesson_id) ==
    { p \in table :
        p.student_id = student_id /\ p.content_item_id = lesson_id }

\* C3: completions that run one after the other, from no progress rows,
\* leave at most one row per (student, lesson): a successful call for a pair
\* without a row inserts one, a successful call for a pair with a row
\* updates it in place and inserts none.
AtMostOneProgressRow ==
    /\ \A p, q \in lesson_progress :
           p.student_id = q.student_id
               /\ p.content_item_id = q.content_item_id => p = q
    /\ \A u \in users, id \in ReqIds :
           \A o \in mark_lesson_complete(u, id) :
               o.resp.status = 200 =>
                   IF PairRows(lesson_progress, u.id, id) = {}
                   THEN /\ lesson_progress \subseteq o.progress
                        /\ Cardinality(o.progress \ lesson_progress) = 1
                        /\ Cardinality(PairRows(o.progress, u.id, id)) = 1
                   ELSE { p.id : p \in o.progress }
                            = { p.id : p \in lesson_progress }

\* A pair completed a second time, later than the first: its one row holds.
AtMostOneProgressRowWitness ==
    /\ resp.op = "mark_lesson_complete"
    /\ resp.status = 200
    /\ \E p \in lesson_progress :
           /\ p.student_id = resp.user
           /\ p.content_item_id = resp.arg
           /\ p.created_at < p.completed_at
           /\ PairRows(lesson_progress, resp.user, resp.arg) = {p}

\* C4: two completion requests for one (student, lesson) pair may both run
\* their query for the progress row before either commits.  Nothing rejects
\* the insert of a request whose query found no row, whatever has been
\* committed since: each such request adds a row for the pair, so two rows
\* for one pair are reachable.
RacingInsertsBothLand ==
    \A w \in Workers :
        inflight[w].pc = "queried" /\ inflight[w].progress = NoId =>
            \A t \in ClockReadings :
                Cardinality(PairRows(Upsert(inflight[w].user,
                                            inflight[w].lesson, NoId, t),
                                     inflight[w].user.id, inflight[w].lesson))
                    = 1 + Cardinality(PairRows(lesson_progress,
                                               inflight[w].user.id,
                                               inflight[w].lesson))

\* Two progress rows of one (student, lesson) pair.
DuplicateProgressRows ==
    \E p, q \in lesson_progress :
        /\ p # q
        /\ p.student_id = q.student_id
        /\ p.content_item_id = q.content_item_id

\* A progress table without the completion times.
Completions(table) ==
    { [id |-> p.id, student_id |-> p.student_id,
       content_item_id |-> p.content_item_id,
       is_completed |-> p.is_completed] : p \in table }

\* C5: complete_lesson is idempotent in effect.  After a successful call for
\* a pair, a second call for it returns 200 with the same lesson_id and
\* leaves the same progress rows with the same is_completed values, the
\* pair's being true.
CompleteIsIdempotent ==
    \A u \in users :
        resp.op = "mark_lesson_complete" /\ resp.status = 200
            /\ resp.user = u.id =>
            \A o \in mark_lesson_complete(u, resp.arg) :
                /\ o.resp.status = 200
                /\ o.resp.items[1].id = resp.items[1].id
                /\ Completions(o.progress) = Completions(lesson_progress)
                /\ PairRows(o.progress, u.id, resp.arg) # {}
                /\ \A p \in PairRows(o.progress, u.id, resp.arg) :
                       p.is_completed

\* The state after a second successful call for a pair: its row is the one
\* the first call made, still completed.
CompleteIsIdempotentWitness ==
    /\ resp.op = "mark_lesson_complete"
    /\ resp.status = 200
    /\ \E p \in PairRows(lesson_progress, resp.user, resp.arg) :
           p.is_completed /\ p.id = 1 /\ p.created_at < p.completed_at
    /\ Cardinality(lesson_progress) = 1

\* C6: every successful complete_lesson stamps the pair's progress row with
\* the clock reading of that call and returns the same value, also when the
\* row was completed already: after a later re-completion the row holds the
\* later time.
CompletedAtIsTimeOfCall ==
    /\ \A u \in users, id \in ReqIds :
           \A o \in mark_lesson_complete(u, id) :
               o.resp.status = 200 =>
                   /\ o.resp.items[1].completed_at = o.clock
                   /\ PairRows(o.progress, u.id, id) # {}
                   /\ \A p \in PairRows(o.progress, u.id, id) :
                          p.completed_at = o.clock
    /\ resp.op = "mark_lesson_complete" /\ resp.status = 200 =>
           /\ resp.items[1].completed_at = now
           /\ \A p \in PairRows(lesson_progress, resp.user, resp.arg) :
                  p.completed_at = now

\* A row re-completed at a later time than its first completion holds, and
\* the response gave, the later time.
CompletedAtIsTimeOfCallWitness ==
    /\ resp.op = "mark_lesson_complete"
    /\ resp.status = 200
    /\ \E p \in PairRows(lesson_progress, resp.user, resp.arg) :
           /\ p.created_at < p.completed_at
           /\ p.completed_at = resp.items[1].completed_at

CourseDetailChecksEnrollmentFirst ==
    \A u \in users, id \in ReqIds :
        \A r \in get_course_detail(u, id) :
            /\ ~IsEnrolled(u, id) => r.status = 403 /\ r.items = << >>
            /\ IsEnrolled(u, id)
                   /\ ~(\E c \in courses : c.id = id /\ c.is_active)
                   => r.status = 404 /\ r.items = << >>
            /\ IsEnrolled(u, id)
                   /\ (\E c \in courses : c.id = id /\ c.is_active)
                   => r.status = 200 /\ r.items = <<[id |-> id]>>

\* An enrolled user asked for the detail of a course that is not active and
\* was answered 404.
CourseDetailChecksEnrollmentFirstWitness ==
    /\ resp.op = "get_course_detail"
    /\ resp.status = 404
    /\ \E u \in users : u.id = resp.user /\ IsEnrolled(u, resp.arg)
    /\ \E c \in courses : c.id = resp.arg /\ ~c.is_active

\* The courses owning a module, as rows.
CoursesOfModule(m) == { c \in courses : c.id = m.course_id }

CoursesOfLesson(l) ==
    UNION { CoursesOfModule(m) : m \in { x \in modules : x.id = l.module_id } }

\* C9: the active flag gates course visibility everywhere.  No endpoint
\* exposes a course with is_active = false or its content, even to a student
\* holding an enrollment row for it: list_my_courses and get_course do not
\* return the course, and list_modules, list_lessons and get_lesson do not
\* return its modules or lessons.
ActiveFlagGatesEverywhere ==
    resp.status = 200 =>
        /\ resp.op \in {"get_my_courses", "get_course_detail"} =>
               \A c \in ReturnedCourses(resp) : c.is_active
        /\ resp.op = "get_course_modules" =>
               \A m \in ReturnedModules(resp) :
                   \A c \in CoursesOfModule(m) : c.is_active
        /\ resp.op \in {"get_module_lessons", "get_lesson_content"} =>
               \A l \in ReturnedLessons(resp) :
                   \A c \in CoursesOfLesson(l) : c.is_active

\* C10: list_my_courses returns exactly the courses that exist with
\* is_active = true and to which an enrollment row links the user within the
\* user's tenant; an enrollment row of a course that is not active adds no
\* entry and never makes the call fail.
MyCoursesAreEnrolledAndActive ==
    \A u \in users :
        \A r \in get_my_courses(u) :
            /\ r.status = 200
            /\ { r.items[i].id : i \in DOMAIN r.items }
                   = { c.id : c \in { x \in courses :
                                        x.is_active /\ IsEnrolled(u, x.id) } }

\* A user enrolled in an active and in an inactive course listed their
\* courses and got the active one alone.
MyCoursesAreEnrolledAndActiveWitness ==
    /\ resp.op = "get_my_courses"
    /\ resp.status = 200
    /\ Len(resp.items) = 1
    /\ \E u \in users, c, d \in courses :
           /\ u.id = resp.user
           /\ IsEnrolled(u, c.id) /\ c.is_active
           /\ IsEnrolled(u, d.id) /\ ~d.is_active
           /\ resp.items[1].id = c.id

\* The pair has completed: it holds a progress row.  Rows are written by
\* successful completions of their own pair alone and never leave
\* (ProgressRowsAreCompletions).
HasCompleted(table, student_id, lesson_id) ==
    PairRows(table, student_id, lesson_id) # {}

\* In the state as it is, every successful read by a student reports a
\* lesson as completed exactly if the student has completed it, and every
\* successful completion leaves the pair completed and resets no row.
CompletionReportedNow ==
    \A u \in users, id \in ReqIds :
        /\ \A o \in mark_lesson_complete(u, id) :
               o.resp.status = 200 =>
                   /\ HasCompleted(o.progress, u.id, id)
                   /\ \A p \in o.progress : p.is_completed
        /\ \A r \in get_lesson_content(u, id) :
               r.status = 200 =>
                   r.items[1].is_completed
                       = HasCompleted(lesson_progress, u.id, id)
        /\ \A r \in get_module_lessons(u, id) :
               r.status = 200 =>
                   \A i \in DOMAIN r.items :
                       r.items[i].is_completed
                           = HasCompleted(lesson_progress, u.id,
                                          r.items[i].id)

\* A step keeps every pair that has completed, and brings a new pair only
\* as the pair of a completion that returned 200.
ProgressRowsAreCompletions ==
    /\ \A p \in lesson_progress :
           HasCompleted(lesson_progress', p.student_id, p.content_item_id)
    /\ \A q \in lesson_progress' :
           ~HasCompleted(lesson_progress, q.student_id, q.content_item_id)
               => /\ resp'.op = "mark_lesson_complete"
                  /\ resp'.status = 200
                  /\ resp'.user = q.student_id
                  /\ resp'.arg = q.content_item_id

\* C11: once complete_lesson(S, L) has returned 200, every later successful
\* list_lessons or get_lesson by student S reports L with is_completed =
\* true, whatever operations run in between (none resets it); before any
\* completion by S, L is reported with is_completed = false.
CompletionIsReported ==
    /\ []CompletionReportedNow
    /\ [][ProgressRowsAreCompletions]_vars

\* A listing that reports a lesson as completed.
CompletionIsReportedWitness ==
    /\ resp.op = "get_module_lessons"
    /\ resp.status = 200
    /\ \E i \in DOMAIN resp.items :
           /\ resp.items[i].is_completed
           /\ HasCompleted(lesson_progress, resp.user, resp.items[i].id)

\* C12: list_lessons checks the module before the enrollment.  If no module
\* of that id exists in the user's tenant the result is 404 whatever the
\* user's enrollments are, and a module that exists in another tenant only
\* gets the very response of an id that names no module; if the module
\* exists in the user's tenant and the user is not enrolled in its course
\* the result is 403.
ModuleLookupPrecedesEnrollmentCheck ==
    \A u \in users, id \in ReqIds :
        \A r \in get_module_lessons(u, id) :
            /\ ~ModuleInTenant(u, id) =>
                   /\ r.status = 404
                   /\ r.items = << >>
                   /\ \A r0 \in get_module_lessons(u, NoId) :
                          /\ r.status = r0.status
                          /\ r.detail = r0.detail
                          /\ r.items = r0.items
            /\ ( /\ ModuleInTenant(u, id)
                 /\ \A c \in OwningCoursesOfModule(id) : ~IsEnrolled(u, c) )
                   => r.status = 403 /\ r.items = << >>

\* A user enrolled in a course asked for the lessons of a module of that
\* course that is stored under another tenant, and was answered 404.
ModuleLookupPrecedesEnrollmentCheckWitness ==
    /\ resp.op = "get_module_lessons"
    /\ resp.status = 404
    /\ \E u \in users, m \in modules :
           /\ u.id = resp.user
           /\ m.id = resp.arg
           /\ m.tenant_id # u.tenant_id
           /\ IsEnrolled(u, m.course_id)

\* The items are in ascending sequence_order.
Ascending(items) ==
    \A i, j \in DOMAIN items :
        i < j => items[i].sequence_order <= items[j].sequence_order

\* The items are the rows of S, each once.
ListsExactly(items, S) ==
    /\ Len(items) = Cardinality(S)
    /\ { [id |-> items[i].id, sequence_order |-> items[i].sequence_order] :
            i \in DOMAIN items }
           = { [id |-> x.id, sequence_order |-> x.sequence_order] : x \in S }

\* C13: listings follow the natural ordering.  A successful list_lessons
\* returns exactly the lessons of the module in the user's tenant, and a
\* successful list_modules exactly the modules of the course in the user's
\* tenant, each sorted ascending by sequence_order whatever the order in
\* which the rows were inserted.
ListingsFollowSequenceOrder ==
    \A u \in users, id \in ReqIds :
        /\ \A r \in get_module_lessons(u, id) :
               r.status = 200 =>
                   /\ Ascending(r.items)
                   /\ ListsExactly(r.items,
                          { l \in content_items :
                              /\ l.module_id = id
                              /\ l.tenant_id = u.tenant_id })
        /\ \A r \in get_course_modules(u, id) :
               r.status = 200 =>
                   /\ Ascending(r.items)
                   /\ ListsExactly(r.items,
                          { m \in modules :
                              /\ m.course_id = id
                              /\ m.tenant_id = u.tenant_id })

\* A listing of two lessons that puts the lesson inserted later, which has
\* the smaller sequence_order, before the one inserted earlier.
ListingsFollowSequenceOrderWitness ==
    /\ resp.op = "get_module_lessons"
    /\ resp.status = 200
    /\ Len(resp.items) = 2
    /\ resp.items[1].id > resp.items[2].id
    /\ resp.items[1].sequence_order < resp.items[2].sequence_order

\* Some user holds the email.
IsRegistered(email) == \E u \in users : u.email = email

\* The password is the one of a user holding the email.
IsPasswordOf(email, password) ==
    \E u \in users :
        u.email = email /\ u.password_hash = hash_password(password)

\* C14: login failure is uniform.  A login with a registered email and a
\* wrong password and a login with an email that no user holds get the same
\* status, 401, and the same message, and neither gets a token: the two
\* responses differ in nothing but the request they answer.
LoginFailureIsUniform ==
    \A d1, d2 \in LoginRequest :
        ( /\ IsRegistered(d1.email)
          /\ ~IsPasswordOf(d1.email, d1.password)
          /\ ~IsRegistered(d2.email) )
            => \A o1 \in login(d1), o2 \in login(d2) :
                   /\ o1.resp.status = 401
                   /\ o2.resp.status = 401
                   /\ o1.resp.detail = o2.resp.detail
                   /\ o1.resp.items = << >> /\ o2.resp.items = << >>
                   /\ TokensOf(o1.resp) = {} /\ TokensOf(o2.resp) = {}
                   /\ [o1.resp EXCEPT !.arg = NoId]
                          = [o2.resp EXCEPT !.arg = NoId]
                   /\ o1.clock = now /\ o2.clock = now

\* A login with a registered email and a wrong password was answered 401.
LoginFailureIsUniformWitness ==
    /\ resp.op = "login"
    /\ resp.status = 401
    /\ IsRegistered(resp.arg.email)
    /\ ~IsPasswordOf(resp.arg.email, resp.arg.password)

\* C15: login never issues a token for a user whose is_active is false:
\* with the email and the password of such a user the result is 403 and no
\* token.  A token is issued only when the email is that of a user, the
\* password verifies and the user is active, and it is bound to that user's
\* id.
LoginRefusesDisabledUsers ==
    \A d \in LoginRequest :
        \A o \in login(d) :
            /\ (o.resp.status = 200 \/ o.resp.items # << >>) =>
                   \E u \in users :
                       /\ u.email = d.email
                       /\ u.password_hash = hash_password(d.password)
                       /\ u.is_active
                       /\ o.resp.status = 200
                       /\ Len(o.resp.items) = 1
                       /\ o.resp.items[1].access_token.sub = u.id
            /\ ( /\ IsPasswordOf(d.email, d.password)
                 /\ \A u \in users : u.email = d.email => ~u.is_active )
                   => /\ o.resp.status = 403
                      /\ o.resp.items = << >>
                      /\ TokensOf(o.resp) = {}

\* A login with the email and the password of a user who is not active was
\* answered 403, and no token of that user has been handed out.
LoginRefusesDisabledUsersWitness ==
    /\ resp.op = "login"
    /\ resp.status = 403
    /\ \E u \in users :
           /\ u.email = resp.arg.email
           /\ u.password_hash = hash_password(resp.arg.password)
           /\ ~u.is_active
           /\ \A token \in held : token.sub # u.id

\* C16: signup with an email not yet registered, a role in {ADMIN, FACULTY,
\* STUDENT} and no tenant specified succeeds with 201 and persists exactly
\* one new active User with that email and role, attached to the first
\* existing tenant; if no tenant exists, a default tenant is created first
\* and the user is attached to it.
SignupCreatesUser ==
    \A d \in SignupRequest :
        ~IsRegistered(d.email) /\ d.role \in UserRole =>
            \A o \in signup(d) :
                /\ o.resp.status = 201
                /\ users \subseteq o.users
                /\ Cardinality(o.users \ users) = 1
                /\ \A n \in o.users \ users :
                       /\ n.email = d.email
                       /\ n.role = d.role
                       /\ n.is_active
                       /\ \E t \in o.tenants : t.id = n.tenant_id
                /\ IF tenants = {}
                   THEN Cardinality(o.tenants) = 1
                   ELSE o.tenants = tenants

\* No two rows of the table share an email.
DistinctEmails(table) ==
    \A u1, u2 \in table : u1.email = u2.email => u1 = u2

InvalidRoleIsRefused ==
    /\ \A u \in users : u.role \in UserRole
    /\ \A d \in SignupRequest :
           \A o \in signup(d) :
               /\ d.role \notin UserRole =>
                      /\ o.resp.status = 400
                      /\ o.users = users
                      /\ o.tenants = tenants
               /\ \A u \in o.users : u.role \in UserRole

\* The role is one of the closed set written in other letter case.
IsRoleInOtherCase(role) == role = "student"

\* C18, amended: signup compares the role in upper case.  A role that is
\* neither in {ADMIN, FACULTY, STUDENT} nor one of them written in other
\* letter case fails with 400 and persists no User and no Tenant; a role
\* that is one of them in other letter case, sent with an email not yet
\* registered, is not refused with 400; every User row that signup creates
\* has a role in that set.
RoleIsCheckedInUpperCase ==
    /\ \A u \in users : u.role \in UserRole
    /\ \A d \in SignupRequest :
           \A o \in signup(d) :
               /\ d.role \notin UserRole /\ ~IsRoleInOtherCase(d.role) =>
                      /\ o.resp.status = 400
                      /\ o.resp.items = << >>
                      /\ o.users = users
                      /\ o.tenants = tenants
               /\ IsRoleInOtherCase(d.role) /\ ~IsRegistered(d.email) =>
                      o.resp.status # 400
               /\ \A u \in o.users : u.role \in UserRole

\* A signup with an email not yet registered and a role outside the set in
\* any letter case was answered 400.
RoleIsCheckedInUpperCaseWitness ==
    /\ resp.op = "signup"
    /\ resp.status = 400
    /\ ~IsRegistered(resp.arg.email)
    /\ resp.arg.role \notin UserRole
    /\ ~IsRoleInOtherCase(resp.arg.role)

\* The tables.
Tables ==
    <<tenants, users, courses, course_enrollments, modules, content_items,
      lesson_progress>>

ErrorStatuses == {400, 401, 403, 404}

\* In the state as it is, every outcome of complete_lesson and of signup
\* that is an error leaves the tables the operation writes as they are.
ErrorOutcomesWriteNothing ==
    /\ \A u \in users, id \in ReqIds :
           \A o \in mark_lesson_complete(u, id) :
               o.resp.status \in ErrorStatuses =>
                   o.progress = lesson_progress
    /\ \A d \in SignupRequest :
           \A o \in signup(d) :
               o.resp.status \in ErrorStatuses =>
                   o.users = users /\ o.tenants = tenants

\* A step that ends in an error response changes no table.
ErrorStepsWriteNothing ==
    resp'.status \in ErrorStatuses => UNCHANGED Tables

\* C19: every operation that ends in an error (400, 401, 403, 404) leaves
\* the persisted state exactly as it was before the call: a complete_lesson
\* that fails with 403 or 404 creates and modifies no LessonProgress row,
\* and a signup that fails with 400 creates no User and no Tenant.
ErrorsLeaveStateUnchanged ==
    /\ []ErrorOutcomesWriteNothing
    /\ [][ErrorStepsWriteNothing]_vars

\* A complete_lesson by a student who is not enrolled was answered 403
\* after another student had completed the lesson: the rows are that other
\* student's.
ErrorsLeaveStateUnchangedWitness ==
    /\ resp.op = "mark_lesson_complete"
    /\ resp.status = 403
    /\ lesson_progress # {}
    /\ PairRows(lesson_progress, resp.user, resp.arg) = {}

\* In the state as it is, every token handed out that has not expired
\* resolves to the user it was made for, and a refresh by the user a token
\* resolves to makes a token bound to that same user's id.
TokensResolveToTheirUser ==
    \A token \in held, t \in ClockReadings :
        \A u \in get_current_user(token, t) :
            /\ token.exp >= t =>
                   /\ u \in users
                   /\ u.id = token.sub
            /\ u # NoUser =>
                   \A t2 \in t .. MaxTime :
                       /\ refresh_token(u, t2).status = 200
                       /\ refresh_token(u, t2).user = token.sub
                       /\ Len(refresh_token(u, t2).items) = 1
                       /\ refresh_token(u, t2).items[1].access_token.sub
                              = token.sub

\* A refresh changes no table and takes back no token.
RefreshWritesNothing ==
    resp'.op = "refresh_token" =>
        /\ UNCHANGED Tables
        /\ held \subseteq held'

\* C20: refresh issues a new token bound to the id of the user who
\* presented the old one and revokes nothing: after any number of refresh
\* calls, every previously issued unexpired token of that user still
\* resolves to the same user, and refresh changes no stored state.
RefreshRevokesNothing ==
    /\ []TokensResolveToTheirUser
    /\ [][RefreshWritesNothing]_vars

\* After a refresh that made a new token, an older token of the same user
\* has not expired and resolves to that user.
RefreshRevokesNothingWitness ==
    /\ resp.op = "refresh_token"
    /\ resp.status = 200
    /\ \E token \in held :
           /\ token # resp.items[1].access_token
           /\ token.sub = resp.user
           /\ token.exp >= now
           /\ \A u \in get_current_user(token, now) : u.id = resp.user

\* In the state as it is, every reset_password is answered 200 with one
\* message, and any two answers differ in nothing but the email echoed.
ResetAnswersAlike ==
    \A e1, e2 \in Emails :
        \A r1 \in reset_password(e1), r2 \in reset_password(e2) :
            /\ r1.status = 200
            /\ Len(r1.items) = 1
            /\ r1.items = r2.items
            /\ [r1 EXCEPT !.arg = NoId] = [r2 EXCEPT !.arg = NoId]

\* A reset_password changes no table.
ResetWritesNothing ==
    resp'.op = "reset_password" => UNCHANGED Tables

\* C21: reset_password returns 200 with the same message for every email,
\* whether or not a user with that email exists, and changes no stored
\* state; two runs that differ only in whether the email is registered
\* produce identical responses.
ResetPasswordIsUninformative ==
    /\ []ResetAnswersAlike
    /\ [][ResetWritesNothing]_vars

\* A reset_password for an email that no user holds was answered 200 with
\* the message, while other emails are registered.
ResetPasswordIsUninformativeWitness ==
    /\ resp.op = "reset_password"
    /\ resp.status = 200
    /\ resp.items[1].message = ResetMessage
    /\ ~IsRegistered(resp.arg)
    /\ \E e \in Emails : IsRegistered(e)

\* The rows of the table that are not of the pair.
OtherRows(table, student_id, lesson_id) ==
    table \ PairRows(table, student_id, lesson_id)

\* In the state as it is, every successful complete_lesson(S, L) leaves the
\* progress rows of every other pair as they are.
CompletionKeepsOtherRows ==
    \A u \in users, id \in ReqIds :
        \A o \in mark_lesson_complete(u, id) :
            o.resp.status = 200 =>
                OtherRows(o.progress, u.id, id)
                    = OtherRows(lesson_progress, u.id, id)

\* A step that is a successful complete_lesson(S, L) changes no row of
\* another pair and no other table; what S reads of another lesson, and
\* what another student reads of any lesson or lists of any module, stays
\* as it was.
CompletionTouchesItsPairOnly ==
    resp'.op = "mark_lesson_complete" /\ resp'.status = 200 =>
        /\ OtherRows(lesson_progress', resp'.user, resp'.arg)
               = OtherRows(lesson_progress, resp'.user, resp'.arg)
        /\ UNCHANGED <<tenants, users, courses, course_enrollments, modules,
                       content_items>>
        /\ \A v \in users, l \in content_items :
               v.id # resp'.user \/ l.id # resp'.arg =>
                   get_lesson_content(v, l.id)' = get_lesson_content(v, l.id)
        /\ \A v \in users, m \in modules :
               v.id # resp'.user =>
                   get_module_lessons(v, m.id)' = get_module_lessons(v, m.id)

\* C22: a successful complete_lesson(S, L) changes only the LessonProgress
\* row(s) of the pair (S, L): it leaves every progress row of another
\* student or of another lesson unchanged, and leaves all User, Course,
\* CourseEnrollment, Module and ContentItem rows unchanged; hence the
\* is_completed flag a student sees for a lesson depends only on that
\* student's own completions.
CompletionIsLocal ==
    /\ []CompletionKeepsOtherRows
    /\ [][CompletionTouchesItsPairOnly]_vars

\* A student has completed a lesson again while holding a row for another
\* lesson and while another student holds a row for the same lesson, both
\* rows being older than this completion.
CompletionIsLocalWitness ==
    /\ resp.op = "mark_lesson_complete"
    /\ resp.status = 200
    /\ \E p, q \in lesson_progress :
           /\ p.student_id # resp.user
           /\ p.content_item_id = resp.arg
           /\ p.completed_at < now
           /\ q.student_id = resp.user
           /\ q.content_item_id # resp.arg
           /\ q.completed_at < now

\* The operations that only read, and login.
ReadOperations ==
    {"get_my_courses", "get_course_detail", "get_course_modules",
     "get_module_lessons", "get_lesson_content", "get_me", "login"}

\* A step of a read operation or of login, whatever its status, leaves
\* every table as it was.
ReadsWriteNothing == resp'.op \in ReadOperations => UNCHANGED Tables

\* A step that changes users or tenants is a signup, and it adds a tenant
\* only when there was none; a step that changes lesson_progress is a
\* complete_lesson; no step changes another table.
OnlySignupAndCompletionWrite ==
    /\ users' # users => resp'.op = "signup"
    /\ tenants' # tenants => resp'.op = "signup" /\ tenants = {}
    /\ lesson_progress' # lesson_progress =>
           resp'.op = "mark_lesson_complete"
    /\ UNCHANGED <<courses, course_enrollments, modules, content_items>>

\* C23: the read operations list_my_courses, get_course, list_modules,
\* list_lessons, get_lesson, get_me, and also login, leave every stored row
\* unchanged whether they succeed or fail; the only operations that write
\* are signup (User, and Tenant when none exists) and complete_lesson
\* (LessonProgress).
OnlySignupAndCompleteLessonWrite ==
    [][ReadsWriteNothing /\ OnlySignupAndCompletionWrite]_vars

\* get_lesson_content has handed a lesson out to a student who holds no
\* progress row for it, while a token is held and accounts are stored.
OnlySignupAndCompleteLessonWriteWitness ==
    /\ resp.op = "get_lesson_content"
    /\ resp.status = 200
    /\ \A p \in lesson_progress :
           p.student_id # resp.user \/ p.content_item_id # resp.arg
    /\ held # {}
    /\ users # {}

\* The users holding the email.
Holders(email) == { u \in users : u.email = email }

\* C24: in login the password check precedes the active-flag check.  For a
\* user whose is_active is false a wrong password yields 401 with the
\* generic message, the answer an unknown email gets, and only the correct
\* password yields 403: every 403 of login answers a request that carries
\* the password of a user who is not active.
LoginChecksPasswordBeforeActive ==
    \A d \in LoginRequest :
        \A o \in login(d) :
            /\ ( /\ Holders(d.email) # {}
                 /\ \A u \in Holders(d.email) :
                        /\ ~u.is_active
                        /\ u.password_hash # hash_password(d.password) )
                   => /\ o.resp.status = 401
                      /\ o.resp = NoSuchUser(d)
                      /\ o.resp.detail # LoginDetail(403)
            /\ o.resp.status = 403 =>
                   \E u \in Holders(d.email) :
                       /\ ~u.is_active
                       /\ u.password_hash = hash_password(d.password)

\* A login with the email of a user who is not active and with a password
\* that is not that user's was answered 401.
LoginChecksPasswordBeforeActiveWitness ==
    /\ resp.op = "login"
    /\ resp.status = 401
    /\ Holders(resp.arg.email) # {}
    /\ \A u \in Holders(resp.arg.email) :
           /\ ~u.is_active
           /\ u.password_hash # hash_password(resp.arg.password)

====
